---- MODULE Spec2Model ----
(***************************************************************************)
(* Model of bbaug/policies/policies.py: the PolicyContainer, its random    *)
(* policy selection, the per-step probability gate of apply_augmentation,  *)
(* the pruning of bounding boxes after every executed step and the two     *)
(* output conversions (_bbs_to_pixel, _bbs_to_percent).                    *)
(*                                                                         *)
(* Coordinates are fixed-point numbers: a coordinate value u stands for    *)
(* u / Scale pixels, so that sub-pixel positions produced by an operation  *)
(* are representable.  A probability p stands for p / ProbDen and a draw   *)
(* of np.random.random() is k / ProbDen with k in 0 .. ProbDen-1, i.e. a   *)
(* value of [0, 1).  A normalised output component is a fraction           *)
(* <<numerator, denominator>>.                                             *)
(***************************************************************************)
EXTENDS Integers, Sequences, FiniteSets, TLC

Scale == 3
ProbDen == 2
MaxSteps == 2
MaxBoxes == 1

\* shape[1] is image.shape[0] (height), shape[2] is image.shape[1] (width), in pixels
ImageShape == <<2, 3>>

Height(shape) == shape[1]
Width(shape) == shape[2]

\* ------------------------------------------------------------------ inputs
OpNames == {"Equalize", "TranslateX_BBox", "Cutout", "BBox_Cutout"}

POLICY_TUPLE(name, probability, magnitude) ==
    [name |-> name, probability |-> probability, magnitude |-> magnitude]

\* steps in the shape of the policies_v3 entries; probability 0 is 0.0,
\* ProbDen is 1.0, 1 is 1 / ProbDen
StepPool ==
    { POLICY_TUPLE("TranslateX_BBox", ProbDen, 5),
      POLICY_TUPLE("Cutout", ProbDen, 10),
      POLICY_TUPLE("BBox_Cutout", 1, 10),
      POLICY_TUPLE("BBox_Cutout", 0, 10) }

SeqsUpTo(S, n) == UNION { [1..k -> S] : k \in 0..n }

Policies == SeqsUpTo(StepPool, MaxSteps)

\* caller-supplied boxes [x_min, y_min, x_max, y_max] in whole pixels: one
\* within the image, one reaching beyond its right edge
PixelBoxPool ==
    { <<0, 0, 2, 1>>,
      <<2, 0, Width(ImageShape) + 3, 1>> }

BoxLists == SeqsUpTo(PixelBoxPool, MaxBoxes)

Images == { [shape |-> ImageShape, data |-> <<>>] }

FullRegistry == [n \in OpNames |-> n]

Registries ==
    { FullRegistry,
      [n \in OpNames \ {"BBox_Cutout"} |-> n] }

Catalogs ==
    { <<>>,
      << <<POLICY_TUPLE("BBox_Cutout", 1, 10), POLICY_TUPLE("TranslateX_BBox", ProbDen, 5)>>,
         <<POLICY_TUPLE("BBox_Cutout", 0, 10), POLICY_TUPLE("Cutout", ProbDen, 10)>> >> }

Draws == 0 .. (ProbDen - 1)

\* ------------------------------------------------------------------ state
VARIABLES
    self,            \* the container: policies, augmentations, return_yolo
    ctor,            \* the constructor arguments (history variable)
    last,            \* "none" | "select" | "apply": the method called last
    prev,            \* at a select: the method that ended just before it (history
                     \* variable, cleared when apply_augmentation starts)
    selected,        \* <<>> or <<policy>>: value returned by select_random_policy
    error,           \* "none" | "IndexError" | "KeyError": exception of the last call
    status,          \* "idle" | "running" | "returned" | "raised" (apply_augmentation)
    policy,          \* argument policy (the caller's list)
    arg_image,       \* argument image (the caller's array)
    bounding_boxes,  \* argument bounding_boxes (the caller's list)
    snap,            \* the three arguments as they were when the call started
    i,               \* index of the next policy step of the for loop
    image,           \* local image
    bbs,             \* local bbs: [boxes, shape]
    draws,           \* the gate draws made so far, one per processed step
    calls,           \* log of factory invocations and operation runs
    lookups,         \* number of __getitem__ calls of this invocation
    ret              \* <<>> or <<[image, boxes]>>: value returned by apply_augmentation

vars == <<self, ctor, last, prev, selected, error, status, policy, arg_image,
          bounding_boxes, snap, i, image, bbs, draws, calls, lookups, ret>>

frame == <<policy, arg_image, bounding_boxes, snap>>

\* ------------------------------------------------------------------ __init__
PolicyContainer(policy_list, name_to_augmentation, return_yolo) ==
    [policies |-> policy_list,
     augmentations |-> name_to_augmentation,
     return_yolo |-> return_yolo]

Init ==
    /\ \E pl \in Catalogs, reg \in Registries, yolo \in BOOLEAN :
          /\ self = PolicyContainer(pl, reg, yolo)
          /\ ctor = PolicyContainer(pl, reg, yolo)
    /\ last = "none"
    /\ prev = "none"
    /\ selected = <<>>
    /\ error = "none"
    /\ status = "idle"
    /\ policy = <<>>
    /\ arg_image \in Images
    /\ bounding_boxes = <<>>
    /\ snap = [policy |-> policy, image |-> arg_image, bounding_boxes |-> bounding_boxes]
    /\ i = 1
    /\ image = arg_image
    /\ bbs = [boxes |-> <<>>, shape |-> arg_image.shape]
    /\ draws = <<>>
    /\ calls = <<>>
    /\ lookups = 0
    /\ ret = <<>>

\* ------------------------------------------------------------------ helpers
Max(a, b) == IF a >= b THEN a ELSE b
Min(a, b) == IF a <= b THEN a ELSE b

Range(f) == { f[k] : k \in DOMAIN f }

RECURSIVE SelectSeq2(_, _)
\* the subsequence of the boxes of s that satisfy Keep, in their order
SelectSeq2(s, keep) ==
    IF s = <<>> THEN <<>>
    ELSE IF keep[Head(s)] THEN <<Head(s)>> \o SelectSeq2(Tail(s), keep)
         ELSE SelectSeq2(Tail(s), keep)

\* BoundingBox(*bb): a pixel box as a box in coordinate units
BoundingBox(bb) == <<bb[1] * Scale, bb[2] * Scale, bb[3] * Scale, bb[4] * Scale>>

\* bbs = BoundingBoxesOnImage([BoundingBox(*bb) for bb in bounding_boxes], image.shape)
BoundingBoxesOnImage(boxes, shape) ==
    [boxes |-> [k \in 1..Len(boxes) |-> BoundingBox(boxes[k])], shape |-> shape]

\* ------------------------------------------------------------------ pruning
\* The largest coordinate a clipped box may take is width - eps (height - eps),
\* eps the smallest positive step of the coordinate grid.
XLimit(shape) == Width(shape) * Scale - 1
YLimit(shape) == Height(shape) * Scale - 1

is_fully_within_image(bb, shape) ==
    /\ bb[1] >= 0
    /\ bb[3] < Width(shape) * Scale
    /\ bb[2] >= 0
    /\ bb[4] < Height(shape) * Scale

\* the intersection of the box with the image rectangle is not empty
is_partly_within_image(bb, shape) ==
    /\ ~ (Max(bb[1], 0) > Min(bb[3], XLimit(shape)))
    /\ ~ (Max(bb[2], 0) > Min(bb[4], YLimit(shape)))

\* is_out_of_image(shape, fully=True, partly=False)
is_out_of_image(bb, shape) ==
    IF is_fully_within_image(bb, shape) THEN FALSE
    ELSE IF is_partly_within_image(bb, shape) THEN FALSE
    ELSE TRUE

Clip(v, lo, hi) == Max(lo, Min(v, hi))

clip_box(bb, shape) ==
    << Clip(bb[1], 0, XLimit(shape)), Clip(bb[2], 0, YLimit(shape)),
       Clip(bb[3], 0, XLimit(shape)), Clip(bb[4], 0, YLimit(shape)) >>

remove_out_of_image(b) ==
    [boxes |-> SelectSeq2(b.boxes, [bb \in Range(b.boxes) |-> ~ is_out_of_image(bb, b.shape)]),
     shape |-> b.shape]

clip_out_of_image(b) ==
    LET kept == SelectSeq2(b.boxes, [bb \in Range(b.boxes) |-> is_partly_within_image(bb, b.shape)])
    IN  [boxes |-> [k \in 1..Len(kept) |-> clip_box(kept[k], b.shape)], shape |-> b.shape]

\* faulty variant: the boxes pushed outside are removed but the others are not clipped
Prune_noclip(b) == remove_out_of_image(b)

\* bbs = bbs.remove_out_of_image().clip_out_of_image()
Prune(b) == clip_out_of_image(remove_out_of_image(b))

\* ------------------------------------------------------------------ operations
\* aug = factory(magnitude, **kwargs); aug(image=image, bounding_boxes=bbs).
\* The image keeps its shape and records the transformation it went through;
\* a translation moves every box by magnitude / Scale pixels along x, every
\* other operation leaves the boxes where they are.
aug(factory, magnitude, kwargs, img, b) ==
    [image |-> [shape |-> img.shape,
                data |-> Append(img.data, <<factory, magnitude, kwargs>>)],
     bbs |-> IF factory = "TranslateX_BBox"
             THEN [boxes |-> [k \in 1..Len(b.boxes) |->
                                <<b.boxes[k][1] + magnitude, b.boxes[k][2],
                                  b.boxes[k][3] + magnitude, b.boxes[k][4]>>],
                   shape |-> b.shape]
             ELSE b]

\* ------------------------------------------------------------------ __getitem__
KeyError == "KeyError"

\* faulty variant: an unknown name falls back to a do-nothing operation
getitem_default(container, item) ==
    IF item \in DOMAIN container.augmentations
    THEN container.augmentations[item]
    ELSE "Identity"

\* faulty variant: an unknown name falls back to some registered operation
getitem_fallback(container, item) ==
    IF item \in DOMAIN container.augmentations
    THEN container.augmentations[item]
    ELSE container.augmentations["Cutout"]

\* return self.augmentations[item]
getitem(container, item) ==
    IF item \in DOMAIN container.augmentations
    THEN container.augmentations[item]
    ELSE KeyError

\* ------------------------------------------------------------------ the loop body
\* faulty variant: <= in place of <
Gate_le(draw, probability) == draw <= probability

\* faulty variant: the comparison the wrong way round
Gate_flipped(draw, probability) == probability < draw

\* if np.random.random() < i.probability
Gate(draw, probability) == draw < probability

\* faulty variant: only 'Cutout' gets the geometry
factory_kwargs_cutout_only(name, img) ==
    IF name = "Cutout"
    THEN { <<"height", Height(img.shape)>>, <<"width", Width(img.shape)>> }
    ELSE {}

\* kwargs = {'height': image.shape[0], 'width': image.shape[1]} for the two
\* cutout names, no keyword argument for every other name
factory_kwargs(name, img) ==
    IF (name = "Cutout") \/ (name = "BBox_Cutout")
    THEN { <<"height", Height(img.shape)>>, <<"width", Width(img.shape)>> }
    ELSE {}

\* one iteration of "for i in policy": its outcome and the new image and bbs
loop_body(container, step, draw, img, b) ==
    IF Gate(draw, step.probability)
    THEN LET factory == getitem(container, step.name) IN
         IF factory = KeyError
         THEN [outcome |-> "raise", image |-> img, bbs |-> b, raw |-> b,
               factory |-> factory, kwargs |-> {}]
         ELSE LET kwargs == factory_kwargs(step.name, img)
                  r == aug(factory, step.magnitude, kwargs, img, b)
              IN  [outcome |-> "run", image |-> r.image, bbs |-> Prune(r.bbs), raw |-> r.bbs,
                   factory |-> factory, kwargs |-> kwargs]
    ELSE [outcome |-> "skip", image |-> img, bbs |-> b, raw |-> b,
          factory |-> "", kwargs |-> {}]

\* ------------------------------------------------------------------ conversions
Abs(x) == IF x >= 0 THEN x ELSE -x

\* the cast of a float to int32 drops the fractional part
ToInt32(u) == IF u >= 0 THEN u \div Scale ELSE -((-u) \div Scale)

\* round(): to the nearest integer, a tie to the even one
Round(u) ==
    LET q == u \div Scale
        r == u % Scale
    IN  IF 2 * r < Scale THEN q
        ELSE IF 2 * r > Scale THEN q + 1
        ELSE IF q % 2 = 0 THEN q ELSE q + 1

\* faulty variant: the coordinates are rounded before the cast
bbs_to_pixel_round(boxes) ==
    [k \in 1..Len(boxes) |->
        <<Round(boxes[k][1]), Round(boxes[k][2]), Round(boxes[k][3]), Round(boxes[k][4])>>]

\* np.array([[bb.x1, bb.y1, bb.x2, bb.y2] for bb in bounding_boxes]).astype('int32')
bbs_to_pixel(boxes) ==
    [k \in 1..Len(boxes) |->
        <<ToInt32(boxes[k][1]), ToInt32(boxes[k][2]), ToInt32(boxes[k][3]), ToInt32(boxes[k][4])>>]

\* faulty variant: height and width exchanged
bbs_to_percent_swapped(boxes, image_height, image_width) ==
    [k \in 1..Len(boxes) |->
        << <<boxes[k][1] + boxes[k][3], 2 * Scale * image_height>>,
           <<boxes[k][2] + boxes[k][4], 2 * Scale * image_width>>,
           <<boxes[k][3] - boxes[k][1], Scale * image_height>>,
           <<boxes[k][4] - boxes[k][2], Scale * image_width>> >>]

\* [bb.center_x / image_width, bb.center_y / image_height,
\*  bb.width / image_width, bb.height / image_height], each a fraction
bbs_to_percent(boxes, image_height, image_width) ==
    [k \in 1..Len(boxes) |->
        << <<boxes[k][1] + boxes[k][3], 2 * Scale * image_width>>,
           <<boxes[k][2] + boxes[k][4], 2 * Scale * image_height>>,
           <<boxes[k][3] - boxes[k][1], Scale * image_width>>,
           <<boxes[k][4] - boxes[k][2], Scale * image_height>> >>]

\* lines 241-245: the box array returned for the final image and bbs
Convert(container, img, b) ==
    IF container.return_yolo
    THEN bbs_to_percent(b.boxes, Height(img.shape), Width(img.shape))
    ELSE bbs_to_pixel(b.boxes)

\* ------------------------------------------------------------------ select_random_policy
\* faulty variant: an empty sequence yields an empty policy
random_choice_or_empty(seq, k) ==
    IF Len(seq) = 0
    THEN [error |-> "none", value |-> << <<>> >>]
    ELSE [error |-> "none", value |-> <<seq[k]>>]

\* random.choice(seq): IndexError on an empty sequence
random_choice(seq, k) ==
    IF Len(seq) = 0
    THEN [error |-> "IndexError", value |-> <<>>]
    ELSE [error |-> "none", value |-> <<seq[k]>>]

\* faulty variant: the chosen policy is taken out of the catalog
select_random_policy_pop(container, k) ==
    [self |-> [container EXCEPT !.policies =
                  IF Len(@) = 0 THEN @
                  ELSE [j \in 1..(Len(@) - 1) |-> IF j < k THEN @[j] ELSE @[j + 1]]],
     out |-> random_choice(container.policies, k)]

\* return random.choice(self.policies)
select_random_policy(container, k) ==
    [self |-> container,
     out |-> random_choice(container.policies, k)]

\* ------------------------------------------------------------------ actions
SelectRandomPolicy ==
    /\ status = "idle"
    /\ \E k \in 1 .. Max(1, Len(self.policies)) :
          LET r == select_random_policy(self, k) IN
          /\ self' = r.self
          /\ selected' = r.out.value
          /\ error' = r.out.error
    /\ last' = "select"
    /\ prev' = last
    /\ UNCHANGED <<ctor, status, i, image, bbs, draws, calls, lookups, ret>>
    /\ UNCHANGED frame

\* entry of apply_augmentation: lines 225-228
CallApply ==
    /\ status = "idle"
    /\ \E p \in Policies, img \in Images, boxes \in BoxLists :
          /\ policy' = p
          /\ arg_image' = img
          /\ bounding_boxes' = boxes
          /\ snap' = [policy |-> p, image |-> img, bounding_boxes |-> boxes]
          /\ image' = img
          /\ bbs' = BoundingBoxesOnImage(boxes, img.shape)
    /\ status' = "running"
    /\ last' = "apply"
    /\ i' = 1
    /\ draws' = <<>>
    /\ calls' = <<>>
    /\ lookups' = 0
    /\ ret' = <<>>
    /\ error' = "none"
    /\ selected' = <<>>
    /\ prev' = "none"
    /\ UNCHANGED <<self, ctor>>

\* the gate draw is not below the probability: the step is skipped
StepSkip ==
    /\ status = "running"
    /\ i <= Len(policy)
    /\ \E d \in Draws :
          LET r == loop_body(self, policy[i], d, image, bbs) IN
          /\ r.outcome = "skip"
          /\ draws' = Append(draws, d)
    /\ i' = i + 1
    /\ UNCHANGED <<self, ctor, last, prev, selected, error, status, image, bbs, calls, lookups, ret>>
    /\ UNCHANGED frame

\* the step passes the gate: lines 231-240
StepRun ==
    /\ status = "running"
    /\ i <= Len(policy)
    /\ \E d \in Draws :
          LET r == loop_body(self, policy[i], d, image, bbs) IN
          /\ r.outcome = "run"
          /\ draws' = Append(draws, d)
          /\ image' = r.image
          /\ bbs' = r.bbs
          /\ calls' = Append(calls,
                [step |-> i, name |-> policy[i].name, factory |-> r.factory,
                 magnitude |-> policy[i].magnitude, kwargs |-> r.kwargs,
                 image_in |-> image, bbs_in |-> bbs, bbs_raw |-> r.raw,
                 image_out |-> r.image, bbs_out |-> r.bbs])
    /\ lookups' = lookups + 1
    /\ i' = i + 1
    /\ UNCHANGED <<self, ctor, last, prev, selected, error, status, ret>>
    /\ UNCHANGED frame

\* the step passes the gate and self[i.name] raises: the call ends
StepRaise ==
    /\ status = "running"
    /\ i <= Len(policy)
    /\ \E d \in Draws :
          LET r == loop_body(self, policy[i], d, image, bbs) IN
          /\ r.outcome = "raise"
          /\ draws' = Append(draws, d)
    /\ lookups' = lookups + 1
    /\ status' = "raised"
    /\ error' = KeyError
    /\ UNCHANGED <<self, ctor, last, prev, selected, i, image, bbs, calls, ret>>
    /\ UNCHANGED frame

\* lines 241-245: conversion of the boxes and return
Return ==
    /\ status = "running"
    /\ i > Len(policy)
    /\ ret' = << [image |-> image, boxes |-> Convert(self, image, bbs)] >>
    /\ status' = "returned"
    /\ UNCHANGED <<self, ctor, last, prev, selected, error, i, image, bbs, draws, calls, lookups>>
    /\ UNCHANGED frame

\* the call has ended (by return or by exception): its frame is gone, the
\* container lives on and takes the next call
CallEnds ==
    /\ status \in {"returned", "raised"}
    /\ status' = "idle"
    /\ policy' = <<>>
    /\ bounding_boxes' = <<>>
    /\ snap' = [policy |-> <<>>, image |-> arg_image, bounding_boxes |-> <<>>]
    /\ i' = 1
    /\ image' = arg_image
    /\ bbs' = [boxes |-> <<>>, shape |-> arg_image.shape]
    /\ draws' = <<>>
    /\ calls' = <<>>
    /\ lookups' = 0
    /\ ret' = <<>>
    /\ UNCHANGED <<self, ctor, last, prev, selected, error, arg_image>>

Next ==
    \/ SelectRandomPolicy
    \/ CallApply
    \/ StepSkip
    \/ StepRun
    \/ StepRaise
    \/ Return
    \/ CallEnds

Spec == Init /\ [][Next]_vars

TypeOK ==
    /\ status \in {"idle", "running", "returned", "raised"}
    /\ last \in {"none", "select", "apply"}
    /\ error \in {"none", "IndexError", "KeyError"}
    /\ i \in 1 .. (MaxSteps + 1)
    /\ Len(draws) <= MaxSteps
    /\ lookups \in 0 .. MaxSteps
    /\ prev \in {"none", "select", "apply"}

\* ------------------------------------------------------------------ properties
Unknown(k) == policy[k].name \notin DOMAIN self.augmentations

Passed(k) == draws[k] < policy[k].probability

Ran(k) == \E j \in 1..Len(calls) : calls[j].step = k

\* every box lies within [0, width] x [0, height] and is well formed
AllInside(b) ==
    \A k \in 1..Len(b.boxes) :
        /\ 0 <= b.boxes[k][1] /\ b.boxes[k][1] <= b.boxes[k][3]
        /\ b.boxes[k][3] <= Width(b.shape) * Scale
        /\ 0 <= b.boxes[k][2] /\ b.boxes[k][2] <= b.boxes[k][4]
        /\ b.boxes[k][4] <= Height(b.shape) * Scale

\* C1 as stated: apply_augmentation never returns a result for a policy one of
\* whose steps names an operation absent from the registry, whatever the draws.
C1_Original ==
    status = "returned" => \A k \in 1..Len(policy) : ~ Unknown(k)

\* C1 amended: a step that passes its gate and names an operation absent from
\* the registry ends the call at that step with the lookup error and without a
\* result, and the call only ever fails at such a step; a step naming an absent
\* operation that its draw skips raises nothing.
C1_GatedUnknownRaises ==
    /\ \A k \in 1..Len(draws) :
          (Passed(k) /\ Unknown(k))
             => (status = "raised" /\ error = KeyError /\ ret = <<>> /\ k = Len(draws))
    /\ status = "raised"
          => (draws # <<>> /\ Passed(Len(draws)) /\ Unknown(Len(draws)))

\* an operation ran, then a later step failed on an unknown name
C1_Witness ==
    /\ status = "raised"
    /\ calls # <<>>
    /\ Unknown(Len(draws))

\* C2 as stated: once a step has been processed (run or skipped) the current
\* box set lies within the image, so the final boxes do too.
C2_Original ==
    (status \in {"running", "returned"} /\ i > 1) => AllInside(bbs)

\* no returned box reaches outside the image: pixel corners in [0, W] x [0, H],
\* or, in normalised form, 0 <= centre - size / 2 and centre + size / 2 <= 1
OutputInside ==
    \A k \in 1..Len(ret[1].boxes) :
        LET o == ret[1].boxes[k]
            W == Width(ret[1].image.shape)
            H == Height(ret[1].image.shape)
        IN  IF self.return_yolo
            THEN /\ (2 * o[1][1] * o[3][2] + o[3][1] * o[1][2]) <= 2 * o[1][2] * o[3][2]
                 /\ (2 * o[2][1] * o[4][2] + o[4][1] * o[2][2]) <= 2 * o[2][2] * o[4][2]
                 /\ 2 * o[1][1] * o[3][2] >= o[3][1] * o[1][2]
                 /\ 2 * o[2][1] * o[4][2] >= o[4][1] * o[2][2]
            ELSE /\ 0 <= o[1] /\ o[1] <= o[3] /\ o[3] <= W
                 /\ 0 <= o[2] /\ o[2] <= o[4] /\ o[4] <= H

\* C2 amended: after every step that passed its gate and ran, the box set given
\* to the rest of the loop holds only boxes within [0, width] x [0, height];
\* if at least one step ran, no box of the final output lies outside the image.
\* (A skipped step prunes nothing.)
C2_PrunedAfterRun ==
    /\ \A j \in 1..Len(calls) : AllInside(calls[j].bbs_out)
    /\ (status \in {"running", "returned"} /\ calls # <<>>) => AllInside(bbs)
    /\ (status = "returned" /\ calls # <<>>) => OutputInside

\* an operation pushed a box partly outside and the box was clipped
C2_Witness ==
    /\ status = "returned"
    /\ \E j \in 1..Len(calls) :
          /\ calls[j].bbs_out.boxes # <<>>
          /\ ~ AllInside(calls[j].bbs_raw)
          /\ calls[j].bbs_out # calls[j].bbs_raw

AllZero(pol) == \A k \in 1..Len(pol) : pol[k].probability = 0

\* C3: a policy whose steps all have probability 0 returns the image it was
\* given and the input boxes converted directly; nothing is looked up or run.
C3_SkipLaw ==
    (status = "returned" /\ AllZero(policy))
       => /\ ret[1].image = snap.image
          /\ ret[1].boxes =
                Convert(self, snap.image,
                        BoundingBoxesOnImage(snap.bounding_boxes, snap.image.shape))
          /\ lookups = 0
          /\ calls = <<>>

C3_Witness ==
    /\ status = "returned"
    /\ policy # <<>>
    /\ AllZero(policy)
    /\ bounding_boxes # <<>>
    /\ Unknown(1)

\* C4 as stated: in pixel mode every output coordinate is the nearest integer
\* of the final box coordinate.
C4_Original ==
    (status = "returned" /\ ~ self.return_yolo)
       => /\ Len(ret[1].boxes) = Len(bbs.boxes)
          /\ \A k \in 1..Len(bbs.boxes) : \A j \in 1..4 :
                2 * Abs(bbs.boxes[k][j] - ret[1].boxes[k][j] * Scale) <= Scale

\* C4 amended: in pixel mode every output coordinate is the final box
\* coordinate with its fractional part dropped (truncation towards zero).
C4_Truncated ==
    (status = "returned" /\ ~ self.return_yolo)
       => /\ Len(ret[1].boxes) = Len(bbs.boxes)
          /\ \A k \in 1..Len(bbs.boxes) : \A j \in 1..4 :
                LET u == bbs.boxes[k][j]
                    n == ret[1].boxes[k][j]
                IN  IF u >= 0
                    THEN n * Scale <= u /\ u < (n + 1) * Scale
                    ELSE (n - 1) * Scale < u /\ u <= n * Scale

\* a final box with a coordinate that is not a whole pixel
C4_Witness ==
    /\ status = "returned"
    /\ ~ self.return_yolo
    /\ \E k \in 1..Len(bbs.boxes) : \E j \in 1..4 : bbs.boxes[k][j] % Scale # 0

\* the fraction f = <<n, d>> equals a / b
FracEq(f, a, b) == f[2] > 0 /\ f[1] * b = a * f[2]

InUnit(f) == 0 <= f[1] /\ f[1] <= f[2]

PercentFormula ==
    /\ Len(ret[1].boxes) = Len(bbs.boxes)
    /\ \A k \in 1..Len(bbs.boxes) :
          LET o == ret[1].boxes[k]
              bb == bbs.boxes[k]
              W == Width(ret[1].image.shape) * Scale
              H == Height(ret[1].image.shape) * Scale
          IN  /\ FracEq(o[1], bb[1] + bb[3], 2 * W)
              /\ FracEq(o[2], bb[2] + bb[4], 2 * H)
              /\ FracEq(o[3], bb[3] - bb[1], W)
              /\ FracEq(o[4], bb[4] - bb[2], H)

PercentInUnit ==
    \A k \in 1..Len(ret[1].boxes) : \A j \in 1..4 : InUnit(ret[1].boxes[k][j])

\* C5 as stated: in normalised mode every output box is (center_x / W,
\* center_y / H, width / W, height / H) and all its components lie in [0, 1],
\* for every input and every sequence of draws.
C5_Original ==
    (status = "returned" /\ self.return_yolo) => (PercentFormula /\ PercentInUnit)

InputInside ==
    AllInside(BoundingBoxesOnImage(snap.bounding_boxes, snap.image.shape))

\* C5 amended: in normalised mode every output box is (center_x / W,
\* center_y / H, width / W, height / H) for the final image's W and H; its
\* components lie in [0, 1] when at least one step ran or when every input box
\* lies within the image.
C5_Percent ==
    (status = "returned" /\ self.return_yolo)
       => /\ PercentFormula
          /\ (calls # <<>> \/ InputInside) => PercentInUnit

C5_Witness ==
    /\ status = "returned"
    /\ self.return_yolo
    /\ calls # <<>>
    /\ ret[1].boxes # <<>>
    /\ ~ InputInside

\* C6: a factory is invoked with the step's magnitude, and with the height and
\* width of the image being processed exactly for 'Cutout' and 'BBox_Cutout'.
C6_CutoutGeometry ==
    \A j \in 1..Len(calls) :
        LET c == calls[j] IN
        /\ c.name = policy[c.step].name
        /\ c.magnitude = policy[c.step].magnitude
        /\ c.factory = self.augmentations[c.name]
        /\ c.image_out.data = Append(c.image_in.data, <<c.factory, c.magnitude, c.kwargs>>)
        /\ IF c.name \in {"Cutout", "BBox_Cutout"}
           THEN c.kwargs = { <<"height", c.image_in.shape[1]>>, <<"width", c.image_in.shape[2]>> }
           ELSE c.kwargs = {}

C6_Witness ==
    /\ \E j \in 1..Len(calls) : calls[j].name = "BBox_Cutout"
    /\ \E j \in 1..Len(calls) : calls[j].name \notin {"Cutout", "BBox_Cutout"}

\* C7: select_random_policy fails with the error of an empty catalog and
\* returns nothing when the catalog is empty; otherwise it returns one of the
\* catalog's policies; the catalog stays as it was.
C7_Select ==
    last = "select"
       => /\ IF ctor.policies = <<>>
             THEN error = "IndexError" /\ selected = <<>>
             ELSE error = "none" /\ Len(selected) = 1 /\ selected[1] \in Range(ctor.policies)
          /\ self.policies = ctor.policies

C7_Witness ==
    /\ last = "select"
    /\ error = "IndexError"
    /\ self.policies = <<>>

\* C8: apply_augmentation either returns the full result, every step that
\* passed its gate having run its registered operation, or fails without
\* returning anything; when it fails on an unknown operation the caller's
\* image and box list are as they were before the call.
C8_NoPartialSuccess ==
    /\ status = "returned"
          => /\ Len(ret) = 1
             /\ Len(draws) = Len(policy)
             /\ ret[1].image = image
             /\ \A k \in 1..Len(policy) :
                   Passed(k) => (Ran(k) /\ ~ Unknown(k))
    /\ status = "raised"
          => /\ ret = <<>>
             /\ error = KeyError
             /\ Unknown(Len(draws))
             /\ arg_image = snap.image
             /\ bounding_boxes = snap.bounding_boxes
    /\ status \in {"idle", "running"} => ret = <<>>

\* the call fails after an earlier step has already transformed the local image
C8_Witness ==
    /\ status = "raised"
    /\ image # arg_image
    /\ bounding_boxes # <<>>

\* C9: the steps are processed in list order with one gate draw each; a
\* step's operation runs iff its draw is below its probability; each running
\* operation gets the image and the pruned boxes the preceding steps left.
C9_OrderAndGate ==
    /\ status \in {"running", "returned"} => Len(draws) = i - 1
    /\ status = "raised" => Len(draws) = i
    /\ status = "returned" => Len(draws) = Len(policy)
    /\ Len(draws) <= Len(policy)
    /\ \A k \in 1..Len(draws) :
          /\ (Ran(k) \/ (status = "raised" /\ k = Len(draws))) <=> Passed(k)
          /\ policy[k].probability = ProbDen => Passed(k)
          /\ policy[k].probability = 0 => ~ Ran(k)
    /\ \A j \in 1..Len(calls) :
          /\ calls[j].step \in 1..Len(draws)
          /\ j > 1 => calls[j - 1].step < calls[j].step
          /\ calls[j].image_in = IF j = 1 THEN snap.image ELSE calls[j - 1].image_out
          /\ calls[j].bbs_in =
                IF j = 1
                THEN BoundingBoxesOnImage(snap.bounding_boxes, snap.image.shape)
                ELSE calls[j - 1].bbs_out
          /\ j > 1 => AllInside(calls[j].bbs_in)
    /\ status # "idle"
          => /\ image = IF calls = <<>> THEN snap.image ELSE calls[Len(calls)].image_out
             /\ bbs = IF calls = <<>>
                      THEN BoundingBoxesOnImage(snap.bounding_boxes, snap.image.shape)
                      ELSE calls[Len(calls)].bbs_out

\* two operations ran one after the other on a non-empty box list
C9_Witness ==
    /\ status = "returned"
    /\ Len(calls) = 2
    /\ calls[2].bbs_in.boxes # <<>>
    /\ calls[2].bbs_in # BoundingBoxesOnImage(snap.bounding_boxes, snap.image.shape)

RECURSIVE Replay(_, _, _, _, _, _)
\* the outcome of apply_augmentation as a function of the container, the
\* arguments and the gate draws only
Replay(container, pol, dr, k, img, b) ==
    IF k > Len(pol)
    THEN [status |-> "returned",
          ret |-> << [image |-> img, boxes |-> Convert(container, img, b)] >>]
    ELSE IF k > Len(dr)
    THEN [status |-> "running", ret |-> <<>>]
    ELSE LET r == loop_body(container, pol[k], dr[k], img, b) IN
         IF r.outcome = "raise"
         THEN [status |-> "raised", ret |-> <<>>]
         ELSE Replay(container, pol, dr, k + 1, r.image, r.bbs)

\* C10: no call changes the catalog, the registry or the output flag of the
\* container, nor the policy and box list it was given; the outcome of
\* apply_augmentation is a function of its arguments and its own draws.
C10_Frame ==
    /\ self = ctor
    /\ policy = snap.policy
    /\ bounding_boxes = snap.bounding_boxes
    /\ arg_image = snap.image
    /\ status \in {"returned", "raised"}
          => [status |-> status, ret |-> ret]
               = Replay(ctor, snap.policy, draws, 1, snap.image,
                        BoundingBoxesOnImage(snap.bounding_boxes, snap.image.shape))

\* a policy is selected on a container that has served an apply_augmentation
\* call before, the call before that select
C10_Witness ==
    /\ status = "idle"
    /\ last = "select"
    /\ prev = "apply"
    /\ selected # <<>>

====
